---- MODULE Spec2Model ----
(***************************************************************************)
(* Model of algo_trade/data.py: the two bar-replay data handlers           *)
(* HistoricCSVDataHandler and TDADataHandler.                              *)
(*                                                                         *)
(* A data frame is a sequence of rows [datetime, open, close]; the         *)
(* datetime column is the frame's index.  A bar, as yielded by             *)
(* DataFrame.iterrows(), is the pair <<index label, row values>>.          *)
(* A dict is a function whose DOMAIN is the set of its keys.               *)
(*                                                                         *)
(* Reading of the source taken by this model: data.py:71 and data.py:203   *)
(* read the attribute `index_col` of a DataFrame.  pandas frames have no   *)
(* such attribute (nor, in current releases, the `.sort()` of line 68), so *)
(* as written the first ticker makes the load raise AttributeError.  The   *)
(* model reads `index_col` as the frame's index and `.sort()` as the sort  *)
(* by index of the pandas release it was written for, since no replay      *)
(* exists otherwise.                                                       *)
(***************************************************************************)
EXTENDS Integers, Sequences, FiniteSets, TLC

\* ---------------------------------------------------------------- bounds
MaxTime == 3      \* timestamps are 1..MaxTime
MaxCalls == 4     \* update_bars calls per behaviour
MaxN == 2         \* N of get_latest_bars ranges over 0..MaxN

Symbols == {"A", "B"}
Fields == {"open", "close"}
TickerLists == {<<>>, <<"A">>, <<"A", "B">>}
Kinds == {"csv", "tda"}

\* ------------------------------------------------------------ input data
\* NaN: the value reindex(method='pad') leaves where nothing can be padded.
NaN == -1
NaNRow == [open |-> NaN, close |-> NaN]
\* Python's None (an empty tuple here, so that it compares with bars).
None == <<>>

SymNo(s) == IF s = "A" THEN 1 ELSE 2
\* The price data of symbol s at timestamp t: distinct for every (s, t, field).
RawRow(s, t) == [datetime |-> t, open |-> 100 * SymNo(s) + 10 * t,
                 close |-> 100 * SymNo(s) + 10 * t + 1]

RECURSIVE Ascending(_)
\* The members of the set of timestamps S in ascending order.
Ascending(S) == IF S = {} THEN <<>>
                ELSE LET m == CHOOSE x \in S : \A y \in S : x <= y
                     IN <<m>> \o Ascending(S \ {m})
Reverse(q) == [i \in 1..Len(q) |-> q[Len(q) + 1 - i]]
\* Row orders a source may deliver: oldest first or newest first.
AscendingOrders == {Ascending(S) : S \in SUBSET (1..MaxTime)}
FileOrders == AscendingOrders \cup {Reverse(q) : q \in AscendingOrders}
\* Candle orders the price-history API delivers: the most recent p timestamps,
\* oldest first (a symbol listed later has the shorter history).
CandleOrders == {[i \in 1..p |-> MaxTime - p + i] : p \in 0..MaxTime}
Frame(s, q) == [i \in 1..Len(q) |-> RawRow(s, q[i])]

\* ----------------------------------------------------------- pandas ops
RECURSIVE InsertRow(_, _)
InsertRow(sorted, r) ==
    IF sorted = <<>> THEN <<r>>
    ELSE IF r.datetime < Head(sorted).datetime THEN <<r>> \o sorted
    ELSE <<Head(sorted)>> \o InsertRow(Tail(sorted), r)
RECURSIVE sort(_)
\* DataFrame.sort(): the rows ordered by index, ascending.
sort(frame) == IF frame = <<>> THEN <<>>
               ELSE InsertRow(sort(SubSeq(frame, 1, Len(frame) - 1)), frame[Len(frame)])

\* DataFrame.index: the index labels in row order.
index(frame) == [i \in 1..Len(frame) |-> frame[i].datetime]
index_col(frame) == index(frame)

RECURSIVE InsertLabel(_, _)
InsertLabel(idx, t) ==
    IF idx = <<>> THEN <<t>>
    ELSE IF t = Head(idx) THEN idx
    ELSE IF t < Head(idx) THEN <<t>> \o idx
    ELSE <<Head(idx)>> \o InsertLabel(Tail(idx), t)
RECURSIVE union(_, _)
\* Index.union(other): a new, sorted index holding the labels of both.
union(idx, other) == IF other = <<>> THEN idx
                     ELSE union(InsertLabel(idx, Head(other)), Tail(other))

Values(r) == [open |-> r.open, close |-> r.close]

RECURSIVE bfill_row(_, _, _)
bfill_row(frame, T, i) ==
    IF i > Len(frame) THEN NaNRow
    ELSE IF frame[i].datetime >= T THEN Values(frame[i])
    ELSE bfill_row(frame, T, i + 1)
RECURSIVE pad_scan(_, _, _, _)
\* Forward scan of a frame sorted by index, carrying the last row at or before T.
pad_scan(frame, T, i, carried) ==
    IF i > Len(frame) THEN carried
    ELSE IF frame[i].datetime > T THEN carried
    ELSE pad_scan(frame, T, i + 1, Values(frame[i]))
pad_backfill(frame, T) == bfill_row(frame, T, 1)
\* The row reindex(method='pad') puts at label T.
pad(frame, T) == pad_scan(frame, T, 1, NaNRow)

\* frame.reindex(index=comb_index, method='pad').iterrows(): the bars the
\* generator will yield, in order.
reindex_iterrows(frame, comb_index) ==
    [i \in 1..Len(comb_index) |-> <<comb_index[i], pad(frame, comb_index[i])>>]

\* ------------------------------------------------------------ dict ops
EmptyDict == [k \in {} |-> <<>>]

\* ------------------------------------------------------------------ state
VARIABLES
    kind,                \* which handler class the object is: "csv" or "tda"
    ticker_list,         \* self.ticker_list
    raw,                 \* what the CSV files / the price-history API hold, per symbol
    ticker_data,         \* self.ticker_data: symbol -> iterrows generator [rows, pos]
    latest_ticker_data,  \* self.latest_ticker_data: symbol -> list of bars
    continue_backtest,   \* self.continue_backtest
    events,              \* number of events put on self.events
    comb_index,          \* the local comb_index of the last load
    calls,               \* number of update_bars calls made so far
    passes,              \* number of those calls in which no StopIteration was caught
    ret                  \* the last call and its outcome

vars == <<kind, ticker_list, raw, ticker_data, latest_ticker_data,
          continue_backtest, events, comb_index, calls, passes, ret>>

Set(tl) == {tl[i] : i \in 1..Len(tl)}

\* ----------------------------------------------------------- construction
RECURSIVE comb_index_loop(_, _, _, _)
\* The comb_index bookkeeping of the first loop over ticker_list: the first
\* ticker's index is taken; for the later ones union() is called and its
\* result dropped.
comb_index_loop(tl, frames, i, comb) ==
    IF i > Len(tl) THEN comb
    ELSE IF i = 1 THEN comb_index_loop(tl, frames, i + 1, index_col(frames[tl[i]]))
    ELSE LET dropped == union(comb, index(frames[tl[i]]))
         IN comb_index_loop(tl, frames, i + 1, comb)

\* The second loop: every ticker's frame becomes a fresh generator over its
\* frame reindexed on comb_index.
reindex_all(tl, frames, comb) ==
    [t \in Set(tl) |-> [rows |-> reindex_iterrows(frames[t], comb), pos |-> 0]]

\* HistoricCSVDataHandler._open_convert_csv_files, on the files' contents rawv.
open_convert_csv_files(tl, rawv) ==
    LET frames == [t \in Set(tl) |-> sort(rawv[t])]
        comb == comb_index_loop(tl, frames, 1, None)
    IN [ticker_data |-> reindex_all(tl, frames, comb),
        latest_ticker_data |-> [t \in Set(tl) |-> <<>>],
        comb_index |-> comb]

NoRet == [op |-> "init", ticker |-> "", val_type |-> "", N |-> 0,
          outcome |-> "ok", bars |-> <<>>, vals |-> <<>>, stop |-> FALSE,
          tried |-> <<>>, alias |-> FALSE]

RawInputs(k, tl) ==
    {r \in [Symbols -> {Frame(s, q) : s \in Symbols, q \in FileOrders}] :
        \A s \in Symbols :
            IF s \in Set(tl)
            THEN \E q \in (IF k = "csv" THEN FileOrders ELSE CandleOrders) :
                    r[s] = Frame(s, q)
            ELSE r[s] = <<>>}

\* The object as its __init__ leaves it.
Init ==
    /\ kind \in Kinds
    /\ ticker_list \in TickerLists
    /\ raw \in RawInputs(kind, ticker_list)
    /\ continue_backtest = TRUE
    /\ events = 0
    /\ calls = 0
    /\ passes = 0
    /\ ret = NoRet
    /\ IF kind = "csv"
       THEN LET built == open_convert_csv_files(ticker_list, raw)
            IN /\ ticker_data = built.ticker_data
               /\ latest_ticker_data = built.latest_ticker_data
               /\ comb_index = built.comb_index
       ELSE /\ ticker_data = EmptyDict
            /\ latest_ticker_data = EmptyDict
            /\ comb_index = None

\* TDADataHandler.get_data: loads (again) what the API holds.
get_data ==
    /\ kind = "tda"
    /\ LET frames == [t \in Set(ticker_list) |-> raw[t]]
           comb == comb_index_loop(ticker_list, frames, 1, None)
           loaded == reindex_all(ticker_list, frames, comb)
       IN /\ ticker_data' = [t \in (DOMAIN ticker_data) \cup Set(ticker_list) |->
                                IF t \in Set(ticker_list) THEN loaded[t] ELSE ticker_data[t]]
          /\ latest_ticker_data' = [t \in (DOMAIN latest_ticker_data) \cup Set(ticker_list) |->
                                IF t \in Set(ticker_list) THEN <<>> ELSE latest_ticker_data[t]]
          /\ comb_index' = comb
    /\ ret' = [NoRet EXCEPT !.op = "get_data"]
    /\ UNCHANGED <<kind, ticker_list, raw, continue_backtest, events, calls, passes>>

\* ------------------------------------------------------------ update_bars
\* next() on the generator: the bar it yields.
next_bar_last(gen) == gen.rows[Len(gen.rows)]
next_bar_first(gen) == gen.rows[1]
next_bar(gen) == gen.rows[gen.pos + 1]

\* next() raises StopIteration: the generator has yielded all its rows.
exhausted_early(gen) == gen.pos + 1 >= Len(gen.rows)
exhausted(gen) == gen.pos >= Len(gen.rows)

RECURSIVE update_loop_break(_, _)
update_loop_break(i, st) ==
    IF i > Len(ticker_list) THEN st
    ELSE LET s == ticker_list[i]
             at == [st EXCEPT !.tried = Append(@, s)]
         IN
         IF s \notin DOMAIN st.ticker_data
         THEN [at EXCEPT !.outcome = "KeyError"]
         ELSE IF exhausted(st.ticker_data[s])
         THEN [at EXCEPT !.continue_backtest = FALSE, !.stop = TRUE]
         ELSE LET bar == next_bar(st.ticker_data[s])
                  pulled == [at EXCEPT !.ticker_data[s].pos = @ + 1]
              IN update_loop_break(i + 1,
                    [pulled EXCEPT !.latest_ticker_data[s] = Append(@, bar)])

RECURSIVE update_loop(_, _)
\* The loop of update_bars from the i-th ticker on; st carries the object's
\* fields, whether StopIteration was caught, an exception leaving the loop,
\* and the tickers whose generator next() was called on, in call order.
update_loop(i, st) ==
    IF i > Len(ticker_list) THEN st
    ELSE LET s == ticker_list[i]
             at == [st EXCEPT !.tried = Append(@, s)]
         IN
         IF s \notin DOMAIN st.ticker_data
         THEN [at EXCEPT !.outcome = "KeyError"]
         ELSE IF exhausted(st.ticker_data[s])
         THEN update_loop(i + 1, [at EXCEPT !.continue_backtest = FALSE, !.stop = TRUE])
         ELSE LET bar == next_bar(st.ticker_data[s])
                  pulled == [at EXCEPT !.ticker_data[s].pos = @ + 1]
              IN IF bar # None
                 THEN update_loop(i + 1,
                        [pulled EXCEPT !.latest_ticker_data[s] = Append(@, bar)])
                 ELSE update_loop(i + 1, pulled)

update_bars ==
    /\ calls < MaxCalls
    /\ LET st == update_loop(1, [ticker_data |-> ticker_data,
                                 latest_ticker_data |-> latest_ticker_data,
                                 continue_backtest |-> continue_backtest,
                                 stop |-> FALSE, outcome |-> "ok", tried |-> <<>>])
       IN /\ ticker_data' = st.ticker_data
          /\ latest_ticker_data' = st.latest_ticker_data
          /\ continue_backtest' = st.continue_backtest
          /\ passes' = IF st.outcome = "ok" /\ ~st.stop THEN passes + 1 ELSE passes
          /\ ret' = [NoRet EXCEPT !.op = "update_bars", !.outcome = st.outcome,
                                  !.stop = st.stop, !.tried = st.tried]
    /\ calls' = calls + 1
    \* "# self.events.put(MarketEvent())": nothing is put on the queue
    /\ events' = events
    /\ UNCHANGED <<kind, ticker_list, raw, comb_index>>

\* ---------------------------------------------------------------- lookups
KeyError == [outcome |-> "KeyError", bars |-> <<>>, vals |-> <<>>]
IndexError == [outcome |-> "IndexError", bars |-> <<>>, vals |-> <<>>]
Ok(bars, vals) == [outcome |-> "ok", bars |-> bars, vals |-> vals]

\* bars_list[-1]
last_or_key_error(bars_list) ==
    IF bars_list = <<>> THEN KeyError ELSE Ok(<<bars_list[Len(bars_list)]>>, <<>>)
last(bars_list) ==
    IF bars_list = <<>> THEN IndexError ELSE Ok(<<bars_list[Len(bars_list)]>>, <<>>)

slice_first(bars_list, N) ==
    SubSeq(bars_list, 1, IF N < Len(bars_list) THEN N ELSE Len(bars_list))
\* bars_list[-N:], by Python's slice rules: a negative start counts from the
\* end and is clipped at 0; -0 is 0.
slice_last(bars_list, N) ==
    LET len == Len(bars_list)
        start == -N
        fromEnd == IF start < 0 THEN start + len ELSE start
        clipped == IF fromEnd < 0 THEN 0 ELSE IF fromEnd > len THEN len ELSE fromEnd
    IN SubSeq(bars_list, clipped + 1, len)

slice_shares_whole_list(bars_list, N) == N >= Len(bars_list)
\* Whether bars_list[-N:] is the list object bars_list itself: a slice
\* expression always builds a new list.
slice_is_same_list(bars_list, N) == FALSE

\* getattr(row, val_type)
getattr(row, val_type) == row[val_type]

get_latest_bar(ticker) ==
    IF ticker \notin DOMAIN latest_ticker_data THEN KeyError
    ELSE last(latest_ticker_data[ticker])

get_latest_bars_default(ticker, N) ==
    IF ticker \notin DOMAIN latest_ticker_data THEN Ok(<<>>, <<>>)
    ELSE Ok(slice_last(latest_ticker_data[ticker], N), <<>>)
get_latest_bars(ticker, N) ==
    IF ticker \notin DOMAIN latest_ticker_data THEN KeyError
    ELSE Ok(slice_last(latest_ticker_data[ticker], N), <<>>)

get_latest_bar_datetime(ticker) ==
    IF ticker \notin DOMAIN latest_ticker_data THEN KeyError
    ELSE LET b == last(latest_ticker_data[ticker])
         IN IF b.outcome # "ok" THEN b ELSE Ok(<<>>, <<b.bars[1][1]>>)

get_latest_bar_value(ticker, val_type) ==
    IF ticker \notin DOMAIN latest_ticker_data THEN KeyError
    ELSE LET b == last(latest_ticker_data[ticker])
         IN IF b.outcome # "ok" THEN b ELSE Ok(<<>>, <<getattr(b.bars[1][2], val_type)>>)

get_latest_bars_values(ticker, val_type, N) ==
    LET got == get_latest_bars(ticker, N)
    IN IF got.outcome # "ok" THEN got
       ELSE Ok(<<>>, [i \in 1..Len(got.bars) |-> getattr(got.bars[i][2], val_type)])

Returned(op, ticker, val_type, N, res) ==
    [op |-> op, ticker |-> ticker, val_type |-> val_type, N |-> N,
     outcome |-> res.outcome, bars |-> res.bars, vals |-> res.vals, stop |-> FALSE,
     tried |-> <<>>, alias |-> FALSE]

Frame_ == <<kind, ticker_list, raw, ticker_data, latest_ticker_data,
            continue_backtest, events, comb_index, calls, passes>>

call_get_latest_bar ==
    \E t \in Symbols :
        /\ ret' = Returned("get_latest_bar", t, "", 0, get_latest_bar(t))
        /\ UNCHANGED Frame_

call_get_latest_bars ==
    \E t \in Symbols, N \in 0..MaxN :
        /\ ret' = [Returned("get_latest_bars", t, "", N, get_latest_bars(t, N))
                      EXCEPT !.alias = /\ t \in DOMAIN latest_ticker_data
                                       /\ slice_is_same_list(latest_ticker_data[t], N)]
        /\ UNCHANGED Frame_

\* The caller empties the list get_latest_bars returned (del result[:]); the
\* buffer changes with it only if the two are the same list object.
caller_clears_result ==
    /\ ret.op = "get_latest_bars" /\ ret.outcome = "ok" /\ ret.bars # <<>>
    /\ ret' = [ret EXCEPT !.op = "result_cleared", !.bars = <<>>]
    /\ latest_ticker_data' = IF ret.alias
                             THEN [latest_ticker_data EXCEPT ![ret.ticker] = <<>>]
                             ELSE latest_ticker_data
    /\ UNCHANGED <<kind, ticker_list, raw, ticker_data, continue_backtest, events,
                   comb_index, calls, passes>>

call_get_latest_bar_datetime ==
    \E t \in Symbols :
        /\ ret' = Returned("get_latest_bar_datetime", t, "", 0, get_latest_bar_datetime(t))
        /\ UNCHANGED Frame_

call_get_latest_bar_value ==
    \E t \in Symbols, f \in Fields :
        /\ ret' = Returned("get_latest_bar_value", t, f, 0, get_latest_bar_value(t, f))
        /\ UNCHANGED Frame_

call_get_latest_bars_values ==
    \E t \in Symbols, f \in Fields, N \in 0..MaxN :
        /\ ret' = Returned("get_latest_bars_values", t, f, N,
                           get_latest_bars_values(t, f, N))
        /\ UNCHANGED Frame_

Next ==
    \/ update_bars
    \/ get_data
    \/ call_get_latest_bar
    \/ call_get_latest_bars
    \/ caller_clears_result
    \/ call_get_latest_bar_datetime
    \/ call_get_latest_bar_value
    \/ call_get_latest_bars_values

Spec == Init /\ [][Next]_vars

\* ================================================================= claims
Min(a, b) == IF a < b THEN a ELSE b
Registered == DOMAIN latest_ticker_data
\* The load (constructor of the CSV handler, get_data of the TDA handler) has run.
Loaded == DOMAIN ticker_data = Set(ticker_list)
Timestamps(s) == {raw[s][i].datetime : i \in 1..Len(raw[s])}
Elems(q) == {q[i] : i \in 1..Len(q)}
LookupOps == {"get_latest_bar", "get_latest_bars", "get_latest_bar_datetime",
              "get_latest_bar_value", "get_latest_bars_values"}
\* The values of the latest raw bar of s at or before T, NaNRow if there is none.
LatestRawAtOrBefore(s, T) ==
    LET cands == {j \in 1..Len(raw[s]) : raw[s][j].datetime <= T}
    IN IF cands = {} THEN NaNRow
       ELSE Values(raw[s][CHOOSE j \in cands :
                            \A k \in cands : raw[s][k].datetime <= raw[s][j].datetime])

C2_TimeAxisIsSortedUnion ==
    Loaded => comb_index = Ascending(UNION {Timestamps(s) : s \in Set(ticker_list)})

C4_AbsentNeverAppended ==
    kind = "csv" =>
      \A s \in Registered :
        /\ \A i \in 1..Len(latest_ticker_data[s]) : latest_ticker_data[s][i][2] # NaNRow
        /\ Len(latest_ticker_data[s]) =
             Cardinality({i \in 1..Min(calls, Len(comb_index)) :
                            \E t \in Timestamps(s) : t <= comb_index[i]})

\* C5 (as claimed): continue_backtest is True after construction; once it is
\* False no step sets it back and no step appends to any buffer.
C5_ExhaustionTerminal ==
    /\ continue_backtest = TRUE
    /\ [][continue_backtest = FALSE =>
            /\ continue_backtest' = FALSE
            /\ \A s \in Registered :
                  /\ s \in DOMAIN latest_ticker_data'
                  /\ Len(latest_ticker_data'[s]) <= Len(latest_ticker_data[s])]_vars

\* C6 (as claimed): with N = 0, get_latest_bars and get_latest_bars_values on a
\* registered symbol return an empty sequence and raise nothing.
C6_ZeroReturnsEmpty ==
    (ret.op \in {"get_latest_bars", "get_latest_bars_values"}
        /\ ret.N = 0 /\ ret.ticker \in Registered) =>
      ret.outcome = "ok" /\ ret.bars = <<>> /\ ret.vals = <<>>

\* C7: truncation.  For N >= 1 on a registered symbol with history H,
\* get_latest_bars returns the last min(N, |H|) bars of H in H's order (all of H
\* when N >= |H|), and get_latest_bars_values the field of the same bars.
C7_Truncation ==
    (ret.op \in {"get_latest_bars", "get_latest_bars_values"}
        /\ ret.N >= 1 /\ ret.ticker \in Registered) =>
      LET H == latest_ticker_data[ret.ticker]
          m == Min(ret.N, Len(H))
          out == IF ret.op = "get_latest_bars" THEN ret.bars ELSE ret.vals
      IN /\ ret.outcome = "ok"
         /\ Len(out) = m
         /\ \A i \in 1..m :
               out[i] = IF ret.op = "get_latest_bars" THEN H[Len(H) - m + i]
                        ELSE getattr(H[Len(H) - m + i][2], ret.val_type)
         /\ (ret.N >= Len(H) /\ ret.op = "get_latest_bars") => ret.bars = H
\* C7 witness: a get_latest_bars call that had to truncate.
C7_Witness ==
    /\ ret.op = "get_latest_bars" /\ ret.ticker \in Registered
    /\ ret.N >= 1 /\ ret.N < Len(latest_ticker_data[ret.ticker])
    /\ Len(ret.bars) = ret.N

\* C8: query before data.  A step that is a get_latest_bar, get_latest_bar_value
\* or get_latest_bar_datetime call on a registered symbol with an empty buffer
\* ends in IndexError (not the KeyError of an unknown symbol) and changes no
\* buffer, generator or flag.
C8_QueryBeforeData ==
    [][(ret'.op \in {"get_latest_bar", "get_latest_bar_value", "get_latest_bar_datetime"}
          /\ ret'.ticker \in Registered
          /\ latest_ticker_data[ret'.ticker] = <<>>) =>
         /\ ret'.outcome = "IndexError"
         /\ ret'.outcome # KeyError.outcome
         /\ UNCHANGED <<latest_ticker_data, ticker_data, continue_backtest>>]_vars
\* C8 witness: get_latest_bar_value was called on a registered, empty buffer.
C8_Witness ==
    /\ ret.op = "get_latest_bar_value" /\ ret.ticker \in Registered
    /\ latest_ticker_data[ret.ticker] = <<>>
    /\ ret.outcome = "IndexError"

\* C9 (as claimed): one notification is put on the events queue by every
\* update_bars call that caught no StopIteration, none by the others.
C9_NotificationPerPass == events = passes

\* C10 (as claimed): no handler exists whose ticker_list is empty.
C10_EmptySymbolSetRejected == ticker_list # <<>>


\* A raw series that is not strictly ascending by timestamp.
Malformed(frame) ==
    \E i \in 1..(Len(frame) - 1) : frame[i].datetime >= frame[i + 1].datetime

\* C11 (as claimed): when a registered symbol's raw series is unsorted or holds
\* a duplicate timestamp, the load fails and leaves no generator and no buffer
\* registered for any symbol.
C11_MalformedInputRejected ==
    (\E s \in Set(ticker_list) : Malformed(raw[s])) =>
        (DOMAIN ticker_data = {} /\ DOMAIN latest_ticker_data = {})

\* C12: unknown symbol.  A step that is a lookup with a ticker that is not in
\* ticker_list ends in the re-raised KeyError and changes no buffer, generator
\* or flag.
C12_UnknownSymbol ==
    [][(ret'.op \in LookupOps /\ ret'.ticker \notin Set(ticker_list)) =>
         /\ ret'.outcome = "KeyError"
         /\ UNCHANGED <<latest_ticker_data, ticker_data, continue_backtest>>]_vars
\* C12 witness: get_latest_bars_values was refused for an unknown ticker while
\* a registered ticker already has bars.
C12_Witness ==
    /\ ret.op = "get_latest_bars_values" /\ ret.ticker \notin Set(ticker_list)
    /\ ret.outcome = "KeyError"
    /\ \E s \in Registered : latest_ticker_data[s] # <<>>


\* Python's == on two floats: NaN equals nothing, itself included.
FloatEq(a, b) == a # NaN /\ b # NaN /\ a = b

\* C13 (as claimed): whenever a registered symbol's buffer is non-empty,
\* get_latest_bar_value(f) equals field f of get_latest_bar() and the last
\* element of get_latest_bars_values(f, N), for every field f and every N >= 1.
C13_FieldRoundTrip ==
    \A t \in Registered :
        latest_ticker_data[t] # <<>> =>
            \A f \in Fields :
                LET v == get_latest_bar_value(t, f).vals[1]
                IN /\ FloatEq(v, getattr(get_latest_bar(t).bars[1][2], f))
                   /\ \A N \in 1..MaxN :
                         LET vs == get_latest_bars_values(t, f, N).vals
                         IN vs # <<>> /\ FloatEq(v, vs[Len(vs)])


\* C14: no partial pass.  Every update_bars call on a loaded handler calls
\* next() exactly once per ticker, in ticker_list order, also in a pass in
\* which StopIteration was caught.
C14_NoPartialPass ==
    (ret.op = "update_bars" /\ Loaded) =>
        /\ ret.outcome = "ok"
        /\ ret.tried = ticker_list
\* C14 witness: a pass over two tickers in which StopIteration was caught.
C14_Witness ==
    /\ ret.op = "update_bars" /\ Loaded /\ ret.stop
    /\ Len(ticker_list) = 2 /\ ret.tried = ticker_list

IsPrefix(a, b) == Len(a) <= Len(b) /\ SubSeq(b, 1, Len(a)) = a

\* C17 (as claimed): a buffer never holds more bars than update_bars was called,
\* and every step (update_bars, lookups, get_data) leaves each buffer's old
\* contents as a prefix of its new contents.
C17_AppendOnly ==
    /\ [](\A s \in Registered : Len(latest_ticker_data[s]) <= calls)
    /\ [][\A s \in Registered :
            /\ s \in DOMAIN latest_ticker_data'
            /\ IsPrefix(latest_ticker_data[s], latest_ticker_data'[s])]_vars

\* C18: lookups are read-only.  A step that is a lookup, successful or not, or
\* the caller emptying the list that get_latest_bars returned, changes no
\* buffer, no generator and not continue_backtest.
C18_LookupsReadOnly ==
    [][(ret'.op \in LookupOps \cup {"result_cleared"}) =>
         UNCHANGED <<latest_ticker_data, ticker_data, continue_backtest>>]_vars
\* C18 witness: the caller has emptied a returned list and the buffered history
\* is still there.
C18_Witness ==
    /\ ret.op = "result_cleared" /\ ret.bars = <<>>
    /\ ret.ticker \in Registered /\ latest_ticker_data[ret.ticker] # <<>>

====
